---- MODULE Spec2Model ----
(***************************************************************************)
(* Model of the go-command dispatch library (src/command.go).              *)
(*                                                                         *)
(* A program first builds a tree of commands with the fluent builder       *)
(* (Root, SubCommand, Flags, Middlewares, Action, Help) and then calls     *)
(* Execute once on the root.  Execute walks the tree along os.Args,        *)
(* parsing each node's flag set, propagating the flags of the node it      *)
(* leaves into the child it enters, and finally either exits the process   *)
(* or invokes the resolved handler wrapped in the accumulated middlewares. *)
(*                                                                         *)
(* Pointers are modelled as indices: a *command is an index into `nodes`,  *)
(* a *flag.FlagSet is the entry of `flagSets` with the same index, and a   *)
(* flag.Value is an index into the heap `values` (so that a Value shared   *)
(* by two flag sets is one cell).                                          *)
(***************************************************************************)
EXTENDS Integers, Sequences, FiniteSets, TLC

\* ------------------------------------------------------------------ bounds

\* Declarations (subcommands, handlers, middlewares, flags, help texts) the
\* program makes after Root() before Execute.
MaxDecls == 3
\* Number of tokens in os.Args[1:].
MaxArgs == 2

\* ---------------------------------------------------------------- alphabets

\* Subcommand names the program may register.
Names == {"a", "b"}
\* os.Args[0], the name of the root command.
ProgName == "prog"
\* Handlers the program may install with Action; NoHandler is Go's nil.
Handlers == {"h1", "h2"}
NoHandler == "none"
\* Middlewares the program may install.
MiddlewareIds == {"A", "B"}
\* Argument lists of one Middlewares(...) call (variadic).
MiddlewareLists == {<<"A">>, <<"B">>, <<"A", "B">>}
\* Flags the program may declare: f with flagSet.String, g with flagSet.Bool.
FlagNames == {"f", "g"}
\* The order in which flag.FlagSet.VisitAll visits flags (lexicographical).
FlagOrder == <<"f", "g">>
\* Command-line tokens.
Tokens == {"a", "b", "--f=x", "--f", "--g", "--"}
\* Help texts.
HelpTexts == {"help"}

FlagKind(name) == IF name = "g" THEN "bool" ELSE "string"
FlagDefault(name) == IF name = "g" THEN "false" ELSE "d"

\* ------------------------------------------------------------------- state

VARIABLES
    nodes,      \* sequence of command structs; nodes[1] is the root
    flagSets,   \* flagSets[i] is the flag.FlagSet nodes[i].flagSet points to
    values,     \* heap of flag.Value cells
    pc,         \* "start", "build", "returned", "exited", "panicked"
    osArgs,     \* os.Args[1:] as read by Execute
    run         \* what Execute did (see ExecuteResult)

vars == <<nodes, flagSets, values, pc, osArgs, run>>

NoRun == [resolved |-> 0, path |-> <<>>, entering |-> 0, args |-> <<>>,
          used |-> <<>>, descents |-> 0, middlewares |-> <<>>,
          events |-> <<>>, out |-> <<>>, ret |-> "none", code |-> -1]

Init ==
    /\ nodes = <<>>
    /\ flagSets = <<>>
    /\ values = <<>>
    /\ pc = "start"
    /\ osArgs = <<>>
    /\ run = NoRun

\* ----------------------------------------------------------------- builder

EmptyMap == [x \in {} |-> 0]

\* F applied to the value of v (v is evaluated once, before F).
Bind(v, F(_)) == CHOOSE y \in {F(x) : x \in {v}} : TRUE

\* The number of declarations in the tree of nodes 1..i.
RECURSIVE Decls(_)
Decls(i) ==
    IF i = 0 THEN 0
    ELSE Decls(i - 1) + Len(nodes[i].middlewares)
         + Cardinality(DOMAIN flagSets[i].formal)
         + (IF nodes[i].handler = NoHandler THEN 0 ELSE 1)
         + (IF nodes[i].help = "" THEN 0 ELSE 1)
         + (IF i = 1 THEN 0 ELSE 1)

\* The program is still building and n more declarations fit the modelled size.
CanDeclare(n) == pc = "build" /\ Decls(Len(nodes)) + n <= MaxDecls

NewFlagSet == [formal |-> EmptyMap, args |-> <<>>]

\* Root(): a command named os.Args[0], no parent, flag set flag.CommandLine.
RootCommand ==
    [name |-> ProgName, help |-> "", middlewares |-> <<>>, handler |-> NoHandler,
     subCommands |-> EmptyMap, parent |-> 0]

Root ==
    /\ pc = "start"
    /\ nodes' = <<RootCommand>>
    /\ flagSets' = <<NewFlagSet>>
    /\ pc' = "build"
    /\ UNCHANGED <<values, osArgs, run>>

\* SubCommand forgetting the back-reference to the parent.
NewCommandNoParent(c, name) ==
    [name |-> name, help |-> "", middlewares |-> <<>>, handler |-> NoHandler,
     subCommands |-> EmptyMap, parent |-> 0]

\* The command struct SubCommand allocates.
NewCommand(c, name) ==
    [name |-> name, help |-> "", middlewares |-> <<>>, handler |-> NoHandler,
     subCommands |-> EmptyMap, parent |-> c]

\* c.subCommands[name] = &command{...}
PutSubCommand(subs, name, id) ==
    [k \in DOMAIN subs \cup {name} |-> IF k = name THEN id ELSE subs[k]]

SubCommand(c, name) ==
    /\ CanDeclare(1)
    /\ LET id == Len(nodes) + 1 IN
       /\ nodes' = Append([nodes EXCEPT ![c].subCommands =
                              PutSubCommand(nodes[c].subCommands, name, id)],
                          NewCommand(c, name))
       /\ flagSets' = Append(flagSets, NewFlagSet)
    /\ UNCHANGED <<values, pc, osArgs, run>>

AppendMiddlewares(old, new) == old \o new

Middlewares(c, mws) ==
    /\ CanDeclare(Len(mws))
    /\ nodes' = [nodes EXCEPT ![c].middlewares = AppendMiddlewares(@, mws)]
    /\ UNCHANGED <<flagSets, values, pc, osArgs, run>>

Action(c, h) ==
    /\ CanDeclare(1)
    /\ nodes' = [nodes EXCEPT ![c].handler = h]
    /\ UNCHANGED <<flagSets, values, pc, osArgs, run>>

Help(c, text) ==
    /\ CanDeclare(1)
    /\ nodes' = [nodes EXCEPT ![c].help = text]
    /\ UNCHANGED <<flagSets, values, pc, osArgs, run>>

\* A flag.Flag: its name, usage, Value (a cell of the heap) and DefValue.
NewFlag(name, cell, def) ==
    [name |-> name, usage |-> name, value |-> cell, defValue |-> def]

PutFlag(formal, name, flag) ==
    [k \in DOMAIN formal \cup {name} |-> IF k = name THEN flag ELSE formal[k]]

\* Flags(fn) where fn declares one flag with flagSet.String / flagSet.Bool:
\* a fresh Value holding the default; flag.FlagSet.Var panics on a name the
\* flag set already has.
Flags(c, name) ==
    /\ CanDeclare(1)
    /\ IF name \in DOMAIN flagSets[c].formal
       THEN /\ pc' = "panicked"
            /\ UNCHANGED <<flagSets, values>>
       ELSE /\ values' = Append(values, [kind |-> FlagKind(name),
                                         val |-> FlagDefault(name)])
            /\ flagSets' = [flagSets EXCEPT ![c].formal =
                               PutFlag(@, name, NewFlag(name, Len(values) + 1,
                                                        FlagDefault(name)))]
            /\ pc' = pc
    /\ UNCHANGED <<nodes, osArgs, run>>

\* The builder calls of the program, on any command it holds a handle to.
CallSubCommand == \E c \in 1..Len(nodes), name \in Names : SubCommand(c, name)
CallMiddlewares == \E c \in 1..Len(nodes), mws \in MiddlewareLists : Middlewares(c, mws)
CallAction == \E c \in 1..Len(nodes), h \in Handlers : Action(c, h)
CallHelp == \E c \in 1..Len(nodes), text \in HelpTexts : Help(c, text)
CallFlags == \E c \in 1..Len(nodes), name \in FlagNames : Flags(c, name)

\* ------------------------------------------------------- flag.FlagSet.Parse

\* parseOne's reading of a token: a token shorter than two bytes or not
\* starting with '-' is not a flag; "--" terminates the flags.
IsFlagToken(s) == s \in {"--f=x", "--f", "--g", "--"}
IsTerminator(s) == s = "--"
\* The name of a flag token (the text after the minuses, up to '=').
TokName(s) == CASE s = "--f=x" -> "f" [] s = "--f" -> "f" [] s = "--g" -> "g"
                [] OTHER -> ""
\* Whether the token carries "=value", and the value.
TokHasValue(s) == s = "--f=x"
TokValue(s) == IF s = "--f=x" THEN "x" ELSE ""

\* strconv.ParseBool as boolValue.Set uses it.
IsBoolText(v) == v \in {"1", "t", "T", "TRUE", "true", "True",
                         "0", "f", "F", "FALSE", "false", "False"}
BoolText(v) == IF v \in {"1", "t", "T", "TRUE", "true", "True"}
               THEN "true" ELSE "false"

\* Value.Set on the cell of a flag.
SetValue(vals, cell, v) ==
    [vals EXCEPT ![cell].val = IF vals[cell].kind = "bool" THEN BoolText(v) ELSE v]

\* A consumed token: what it was consumed as, and by which node's flag set.
Used(tok, role, at) == [tok |-> tok, role |-> role, at |-> at]

\* One call of parseOne on the flag set of node `at`:
\* seen (a flag was parsed), err ("" is nil), the remaining f.args, the heap
\* and the tokens consumed.
ParseOne(formal, vals, args, at) ==
    LET stop == [seen |-> FALSE, err |-> "", args |-> args, vals |-> vals,
                 used |-> <<>>]
    IN
    IF args = <<>> THEN stop
    ELSE LET s == Head(args)
             rest == Tail(args)
             name == TokName(s)
         IN
         IF ~IsFlagToken(s) THEN stop
         ELSE IF IsTerminator(s)
         THEN [stop EXCEPT !.args = rest, !.used = <<Used(s, "term", at)>>]
         ELSE IF name \notin DOMAIN formal
         THEN [stop EXCEPT !.err = "flag provided but not defined", !.args = rest,
                           !.used = <<Used(s, "flag", at)>>]
         ELSE LET cell == formal[name].value IN
              IF vals[cell].kind = "bool"
              THEN IF TokHasValue(s) /\ ~IsBoolText(TokValue(s))
                   THEN [stop EXCEPT !.err = "invalid boolean value", !.args = rest,
                                     !.used = <<Used(s, "flag", at)>>]
                   ELSE [seen |-> TRUE, err |-> "", args |-> rest,
                         vals |-> SetValue(vals, cell,
                                     IF TokHasValue(s) THEN TokValue(s) ELSE "true"),
                         used |-> <<Used(s, "flag", at)>>]
              ELSE IF TokHasValue(s)
                   THEN [seen |-> TRUE, err |-> "", args |-> rest,
                         vals |-> SetValue(vals, cell, TokValue(s)),
                         used |-> <<Used(s, "flag", at)>>]
                   ELSE IF rest # <<>>
                   THEN [seen |-> TRUE, err |-> "", args |-> Tail(rest),
                         vals |-> SetValue(vals, cell, Head(rest)),
                         used |-> <<Used(s, "flag", at), Used(Head(rest), "value", at)>>]
                   ELSE [stop EXCEPT !.err = "flag needs an argument", !.args = rest,
                                     !.used = <<Used(s, "flag", at)>>]

RECURSIVE ParseLoop(_, _, _, _, _)
ParseLoop(formal, vals, args, at, used) ==
    Bind(ParseOne(formal, vals, args, at), LAMBDA one :
        IF one.seen
        THEN Bind(used \o one.used, LAMBDA u :
                 ParseLoop(formal, one.vals, one.args, at, u))
        ELSE [err |-> one.err, args |-> one.args, vals |-> one.vals,
              used |-> used \o one.used])

\* command.flagSet.Parse(args): err # "" is the flag set's ExitOnError exit.
Parse(formal, vals, args, at) == ParseLoop(formal, vals, args, at, <<>>)

\* ------------------------------------------------------------------- usage

RECURSIVE FullCommand(_, _)
FullCommand(ns, c) ==
    IF c = 0 THEN <<>> ELSE Append(FullCommand(ns, ns[c].parent), ns[c].name)

\* What c.usage() writes for node c.
Usage(ns, fs, c) ==
    LET nbFlags == Cardinality(DOMAIN fs[c].formal)
        subs == ns[c].subCommands
    IN [kind |-> "usage",
        node |-> c,
        fullCommand |-> FullCommand(ns, c),
        optionsHint |-> IF nbFlags > 0 THEN " [OPTIONS]" ELSE "",
        subCommandHint |-> IF DOMAIN subs # {}
                           THEN IF ns[c].handler = NoHandler
                                THEN " COMMAND" ELSE " [COMMAND]"
                           ELSE "",
        help |-> ns[c].help,
        options |-> DOMAIN fs[c].formal,
        subCommands |-> {<<k, ns[subs[k]].help>> : k \in DOMAIN subs},
        text |-> ""]

ErrorLine(ns, fs, c, text) == [Usage(ns, fs, c) EXCEPT !.kind = "error", !.text = text]

\* ---------------------------------------------------- flag propagation

\* Propagation that declares in the child a fresh Value holding the default
\* instead of sharing the parent's Value.
VarFreshValue(formal, vals, flag) ==
    IF flag.name \in DOMAIN formal
    THEN [ok |-> FALSE, formal |-> formal, vals |-> vals]
    ELSE [ok |-> TRUE,
          formal |-> PutFlag(formal, flag.name,
                             NewFlag(flag.name, Len(vals) + 1, FlagDefault(flag.name))),
          vals |-> Append(vals, [kind |-> vals[flag.value].kind,
                                 val |-> FlagDefault(flag.name)])]

\* Propagation that replaces a flag the child already has.
VarOverwrite(formal, vals, flag) ==
    [ok |-> TRUE,
     formal |-> PutFlag(formal, flag.name,
                        NewFlag(flag.name, flag.value, vals[flag.value].val)),
     vals |-> vals]

\* Propagation that silently keeps a flag the child already has.
VarSkipExisting(formal, vals, flag) ==
    IF flag.name \in DOMAIN formal
    THEN [ok |-> TRUE, formal |-> formal, vals |-> vals]
    ELSE [ok |-> TRUE,
          formal |-> PutFlag(formal, flag.name,
                             NewFlag(flag.name, flag.value, vals[flag.value].val)),
          vals |-> vals]

\* subCommand.flagSet.Var(f.Value, f.Name, f.Usage): the child gets a flag of
\* the same name sharing the parent's Value; DefValue is the Value's text at
\* that moment.  A name the child already has makes Var panic.
Var(formal, vals, flag) ==
    IF flag.name \in DOMAIN formal
    THEN [ok |-> FALSE, formal |-> formal, vals |-> vals]
    ELSE [ok |-> TRUE,
          formal |-> PutFlag(formal, flag.name,
                             NewFlag(flag.name, flag.value, vals[flag.value].val)),
          vals |-> vals]

\* command.flagSet.VisitAll(func(f) { subCommand.flagSet.Var(...) }), visiting
\* the parent's flags in lexicographical order from position i on.
RECURSIVE VisitAll(_, _, _, _)
VisitAll(parent, child, vals, i) ==
    IF i > Len(FlagOrder) THEN [ok |-> TRUE, formal |-> child, vals |-> vals]
    ELSE IF FlagOrder[i] \notin DOMAIN parent
    THEN VisitAll(parent, child, vals, i + 1)
    ELSE Bind(Var(child, vals, parent[FlagOrder[i]]), LAMBDA r :
             IF r.ok THEN VisitAll(parent, r.formal, r.vals, i + 1) ELSE r)

\* A descent that propagates no flag.
PropagateNothing(parent, child, vals) == [ok |-> TRUE, formal |-> child, vals |-> vals]

Propagate(parent, child, vals) == VisitAll(parent, child, vals, 1)

\* --------------------------------------------------- handlers, middlewares

\* Lookup[T](flagSet, name): the flag's current value, the zero value of T
\* when the flag set has no such flag.
Lookup(formal, vals, name) ==
    IF name \in DOMAIN formal THEN vals[formal[name].value].val
    ELSE IF FlagKind(name) = "bool" THEN "false" ELSE ""

Event(ev, who, formal, vals, args) ==
    [ev |-> ev, who |-> who, f |-> Lookup(formal, vals, "f"), args |-> args]

\* The handlers of the examples: h1 only reports (EchoHandler), h2 requires
\* flag f to be non-empty (ReposListHandler).
HandlerReturn(h, formal, vals) ==
    IF h = "h2" /\ Lookup(formal, vals, "f") = "" THEN "missing required flag"
    ELSE "nil"

\* A composed handler is the list of its layers, outermost first, the
\* command's own handler last.  Middleware A runs logic before and after the
\* next handler; middleware B does too, but returns an error without calling
\* the next handler when flag g is set.
RECURSIVE Call(_, _, _, _)
Call(handler, formal, vals, args) ==
    IF Len(handler) = 1
    THEN [events |-> <<Event("handler", handler[1], formal, vals, args)>>,
          ret |-> HandlerReturn(handler[1], formal, vals)]
    ELSE LET m == Head(handler)
             before == Event("before", m, formal, vals, args)
             after == Event("after", m, formal, vals, args)
         IN
         IF m = "B" /\ Lookup(formal, vals, "g") = "true"
         THEN [events |-> <<before>>, ret |-> "stopped by B"]
         ELSE Bind(Tail(handler), LAMBDA inner :
                  Bind(Call(inner, formal, vals, args), LAMBDA next :
                      [events |-> <<before>> \o next.events \o <<after>>,
                       ret |-> next.ret]))

\* ----------------------------------------------------------------- Execute

\* middlewares[i](handler)
Wrap(m, handler) == <<m>> \o handler

\* handler := command.handler; for i := len-1 .. 0 { handler = middlewares[i](handler) }
RECURSIVE ComposeFrom(_, _, _)
ComposeFrom(middlewares, i, handler) ==
    IF i < 1 THEN handler
    ELSE Bind(Wrap(middlewares[i], handler), LAMBDA wrapped :
             ComposeFrom(middlewares, i - 1, wrapped))

\* Composition folding from the first middleware to the last, which makes
\* the last one appended the outermost.
RECURSIVE ComposeUpFrom(_, _, _)
ComposeUpFrom(middlewares, i, handler) ==
    IF i > Len(middlewares) THEN handler
    ELSE Bind(Wrap(middlewares[i], handler), LAMBDA wrapped :
             ComposeUpFrom(middlewares, i + 1, wrapped))

ComposeInnerFirst(middlewares, h) == ComposeUpFrom(middlewares, 1, <<h>>)

Compose(middlewares, h) == ComposeFrom(middlewares, Len(middlewares), <<h>>)

\* A descent that does not drop the subcommand name.
KeepToken(args) == args

\* args = args[1:]
DropToken(args) == Tail(args)

\* A lookup that returns some child of c, whatever the name.
LookupAnySubCommand(c, name) ==
    nodes[c].subCommands[CHOOSE k \in DOMAIN nodes[c].subCommands : TRUE]

\* subCommand, ok := command.subCommands[args[0]], when ok.
LookupSubCommand(c, name) == nodes[c].subCommands[name]

\* Execute calling the composed handler and dropping its result.
ReturnNil(ret) == "nil"

\* return handler(ctx, command.flagSet, args)
ReturnOf(ret) == ret

\* The exit without the check of the remaining arguments.
NoHandlerExitUsageOnly(ns, fs, c, args) == [code |-> 0, out |-> <<Usage(ns, fs, c)>>]

\* The exit taken when the resolved command has no handler.
NoHandlerExit(ns, fs, c, args) ==
    IF Len(args) > 0
    THEN [code |-> 2,
          out |-> <<ErrorLine(ns, fs, c, "command provided but not defined"),
                    Usage(ns, fs, c)>>]
    ELSE [code |-> 0, out |-> <<Usage(ns, fs, c)>>]

\* The state of Execute's loop after the parse p of command w.command.
Parsed(w, p) ==
    [w EXCEPT !.fs[w.command].args = p.args, !.vals = p.vals, !.args = p.args,
              !.used = @ \o p.used]

\* The state of the loop after descending into sub, pr being the outcome of
\* the propagation into sub's flag set.
Descend(w, sub, pr) ==
    [w EXCEPT !.command = sub,
              !.fs[sub].formal = pr.formal,
              !.vals = pr.vals,
              !.args = DropToken(w.args),
              !.used = @ \o <<Used(Head(w.args), "name", w.command)>>,
              !.path = Append(@, sub),
              !.descents = @ + 1,
              !.middlewares = @ \o nodes[sub].middlewares]

\* The loop of Execute from the state w = (command, args, middlewares, ...)
\* until it breaks, exits or panics.
RECURSIVE Walk(_)
Walk(w) ==
    Bind(Parse(w.fs[w.command].formal, w.vals, w.args, w.command), LAMBDA p :
    Bind(Parsed(w, p), LAMBDA w1 :
        IF p.err # ""
        THEN [w1 EXCEPT !.status = "exited", !.code = 2,
                        !.out = <<ErrorLine(nodes, w1.fs, w1.command, p.err),
                                  Usage(nodes, w1.fs, w1.command)>>]
        ELSE IF w1.args = <<>>
                \/ Head(w1.args) \notin DOMAIN nodes[w1.command].subCommands
        THEN [w1 EXCEPT !.status = "resolved"]
        ELSE Bind(LookupSubCommand(w1.command, Head(w1.args)), LAMBDA sub :
             Bind(Propagate(w1.fs[w1.command].formal, w1.fs[sub].formal, w1.vals),
                  LAMBDA pr :
                 IF ~pr.ok
                 THEN [w1 EXCEPT !.status = "panicked", !.fs[sub].formal = pr.formal,
                                 !.vals = pr.vals, !.entering = sub]
                 ELSE Bind(Descend(w1, sub, pr), LAMBDA w2 : Walk(w2))))))

\* slices.Clone(c.middlewares)
Clone(middlewares) == middlewares

\* How Execute ends once its loop has ended in state w.
Finish(w) ==
    LET base == [resolved |-> 0, path |-> w.path, entering |-> w.entering,
                 args |-> w.args, used |-> w.used, descents |-> w.descents,
                 middlewares |-> w.middlewares, events |-> <<>>, out |-> w.out,
                 ret |-> "none", code |-> w.code]
    IN
    IF w.status # "resolved"
    THEN [pc |-> w.status, fs |-> w.fs, vals |-> w.vals, run |-> base]
    ELSE IF nodes[w.command].handler = NoHandler
    THEN Bind(NoHandlerExit(nodes, w.fs, w.command, w.args), LAMBDA e :
             [pc |-> "exited", fs |-> w.fs, vals |-> w.vals,
              run |-> [base EXCEPT !.resolved = w.command, !.code = e.code,
                                   !.out = e.out]])
    ELSE Bind(Compose(w.middlewares, nodes[w.command].handler), LAMBDA handler :
         Bind(Call(handler, w.fs[w.command].formal, w.vals, w.args), LAMBDA r :
             [pc |-> "returned", fs |-> w.fs, vals |-> w.vals,
              run |-> [base EXCEPT !.resolved = w.command, !.events = r.events,
                                   !.ret = ReturnOf(r.ret)]]))

\* c.Execute(ctx) with os.Args[1:] = argv: how it ends.
ExecuteResult(c, argv) ==
    Bind([command |-> c, args |-> argv,
          middlewares |-> Clone(nodes[c].middlewares),
          fs |-> flagSets, vals |-> values, path |-> <<c>>,
          used |-> <<>>, descents |-> 0, entering |-> 0,
          status |-> "running", code |-> -1, out |-> <<>>], LAMBDA w0 :
        Bind(Walk(w0), LAMBDA w : Finish(w)))

\* The argument vectors os.Args[1:] may hold.
Argvs == UNION {[1..n -> Tokens] : n \in 0..MaxArgs}

\* root.Execute(ctx), called once, after the tree is built.
Execute ==
    /\ pc = "build"
    /\ \E argv \in Argvs :
         \E r \in {ExecuteResult(1, argv)} :
         /\ osArgs' = argv
         /\ pc' = r.pc
         /\ flagSets' = r.fs
         /\ values' = r.vals
         /\ run' = r.run
    /\ UNCHANGED nodes

Next ==
    \/ Root
    \/ CallSubCommand
    \/ CallMiddlewares
    \/ CallAction
    \/ CallHelp
    \/ CallFlags
    \/ Execute

Spec == Init /\ [][Next]_vars

\* ------------------------------------------------------------------ claims

\* Execute has run (it records the walked path, which starts at the root).
Executed == run.path # <<>>
\* The step in which Execute runs.
ExecuteStep == pc = "build" /\ run'.path # <<>>

\* The tokens Execute consumed, in order, and those consumed as subcommand names.
UsedTokens == [i \in 1..Len(run.used) |-> run.used[i].tok]
NameTokens == SelectSeq(run.used, LAMBDA u : u.role = "name")

\* The node reached from c by following the children maps along names; 0 if
\* some name is no child.
RECURSIVE Follow(_, _)
Follow(c, names) ==
    IF names = <<>> THEN c
    ELSE IF Head(names).tok \in DOMAIN nodes[c].subCommands
    THEN Follow(nodes[c].subCommands[Head(names).tok], Tail(names))
    ELSE 0

HandlerCalls(events) == SelectSeq(events, LAMBDA e : e.ev = "handler")

\* The value the command line gives flag `name`: that of the last token naming
\* it among the consumed ones, its default when there is none.
Supplied(used, name) ==
    LET idx == {i \in 1..Len(used) :
                    used[i].role = "flag" /\ TokName(used[i].tok) = name}
    IN IF idx = {} THEN FlagDefault(name)
       ELSE LET i == CHOOSE j \in idx : \A k \in idx : k <= j IN
            IF TokHasValue(used[i].tok) THEN TokValue(used[i].tok)
            ELSE IF FlagKind(name) = "bool" THEN "true"
            ELSE used[i + 1].tok

\* C1: when Execute returns, the tokens it consumed followed by the arguments
\* it passed are os.Args[1:] in order; the consumed subcommand names spell a
\* path of the tree from the root whose end is the resolved node; a first
\* remaining token names no child of that node; and the handler invoked (if a
\* middleware did not stop the call) is that node's, with those arguments.
C1_DispatchReachesPathEnd ==
    pc = "returned" =>
        LET target == Follow(1, NameTokens)
            calls == HandlerCalls(run.events)
        IN /\ osArgs = UsedTokens \o run.args
           /\ target # 0
           /\ target = run.resolved
           /\ run.args # <<>> =>
                  Head(run.args) \notin DOMAIN nodes[target].subCommands
           /\ Len(calls) <= 1
           /\ Len(calls) = 0 => run.ret = "stopped by B"
           /\ \A i \in 1..Len(calls) :
                  /\ calls[i].who = nodes[target].handler
                  /\ calls[i].args = run.args

C1_Witness ==
    /\ pc = "returned"
    /\ run.descents >= 1
    /\ run.args # <<>>
    /\ Len(HandlerCalls(run.events)) = 1
    /\ nodes[1].handler # nodes[run.resolved].handler

\* C2: when Execute resolves a node, that node's flag set holds exactly the
\* flags declared (before Execute) by the nodes on the walked path, each
\* sharing the Value of the declaring node's flag, and holding the value the
\* command line supplies for it wherever the token stands; so a flag declared
\* only off the path is not in it.
C2_FlagsInheritedAlongPath ==
    [][(ExecuteStep /\ run'.resolved # 0) =>
        LET r == run'.resolved
            path == run'.path
        IN /\ DOMAIN flagSets'[r].formal =
                  UNION {DOMAIN flagSets[path[i]].formal : i \in 1..Len(path)}
           /\ \A i \in 1..Len(path) : \A name \in DOMAIN flagSets[path[i]].formal :
                  /\ flagSets'[r].formal[name].value =
                         flagSets[path[i]].formal[name].value
                  /\ Lookup(flagSets'[r].formal, values', name) =
                         Supplied(run'.used, name)
    ]_vars

C2_Witness ==
    /\ pc = "returned"
    /\ run.descents >= 1
    /\ \E i \in 1..Len(run.used) :
           /\ run.used[i].role = "flag"
           /\ run.used[i].at = run.resolved
           /\ TokName(run.used[i].tok) \in DOMAIN flagSets[1].formal
           /\ Lookup(flagSets[run.resolved].formal, values, TokName(run.used[i].tok))
                  # FlagDefault(TokName(run.used[i].tok))

\* The middlewares of the nodes of path from position i on, root to leaf.
RECURSIVE PathMiddlewares(_, _)
PathMiddlewares(path, i) ==
    IF i > Len(path) THEN <<>>
    ELSE nodes[path[i]].middlewares \o PathMiddlewares(path, i + 1)

\* What m1(m2(...mk(h))) does, as (event, who) pairs: stop tells whether
\* middleware B returns without calling through.
RECURSIVE Onion(_, _, _)
Onion(ms, h, stop) ==
    IF ms = <<>> THEN << <<"handler", h>> >>
    ELSE IF Head(ms) = "B" /\ stop THEN << <<"before", "B">> >>
    ELSE << <<"before", Head(ms)>> >> \o Onion(Tail(ms), h, stop)
             \o << <<"after", Head(ms)>> >>

Marks(events) == [i \in 1..Len(events) |-> <<events[i].ev, events[i].who>>]

\* Whether flag g is set in the resolved node's flag set (middleware B then
\* returns without calling the next handler).
StopSet == Lookup(flagSets[run.resolved].formal, values, "g") = "true"

C4_RouterExits ==
    (Executed /\ run.resolved # 0 /\ nodes[run.resolved].handler = NoHandler) =>
        /\ pc = "exited"
        /\ run.events = <<>>
        /\ run.ret = "none"
        /\ IF run.args = <<>>
           THEN /\ run.code = 0
                /\ Len(run.out) = 1
                /\ run.out[1].kind = "usage" /\ run.out[1].node = run.resolved
           ELSE /\ run.code = 2
                /\ Head(run.args) \notin DOMAIN nodes[run.resolved].subCommands
                /\ Len(run.out) = 2
                /\ run.out[1].kind = "error"
                /\ run.out[1].text = "command provided but not defined"
                /\ run.out[2].kind = "usage" /\ run.out[2].node = run.resolved

C4_Witness ==
    /\ pc = "exited"
    /\ run.resolved > 1
    /\ run.args # <<>>
    /\ run.code = 2

\* C5: when Execute returns and the resolved node's flag set has flag f, every
\* middleware and the handler read for f the value the command line supplies,
\* whether its token was parsed by an ancestor or by the resolved node.
C5_SuppliedValueIsRead ==
    (pc = "returned" /\ "f" \in DOMAIN flagSets[run.resolved].formal) =>
        \A i \in 1..Len(run.events) : run.events[i].f = Supplied(run.used, "f")

C5_Witness ==
    /\ pc = "returned"
    /\ run.descents >= 1
    /\ "f" \in DOMAIN flagSets[1].formal
    /\ \E i \in 1..Len(run.used) :
           /\ run.used[i].role = "flag" /\ run.used[i].at = 1
           /\ TokName(run.used[i].tok) = "f"
    /\ \E i \in 1..Len(run.events) :
           run.events[i].ev = "handler" /\ run.events[i].f = "x"

\* C6: when the resolved node has a handler, Execute returns, without exiting
\* or writing anything, the value of the outermost composed handler: the error
\* of the first middleware that does not call through, else the handler's.
C6_ReturnsHandlerResult ==
    (Executed /\ run.resolved # 0 /\ nodes[run.resolved].handler # NoHandler) =>
        /\ pc = "returned"
        /\ run.code = -1
        /\ run.out = <<>>
        /\ run.ret =
             IF StopSet /\ \E i \in 1..Len(run.middlewares) : run.middlewares[i] = "B"
             THEN "stopped by B"
             ELSE HandlerReturn(nodes[run.resolved].handler,
                                flagSets[run.resolved].formal, values)

C6_Witness ==
    /\ pc = "returned"
    /\ run.ret = "stopped by B"
    /\ HandlerCalls(run.events) = <<>>

\* The names of the flags of node n's flag set.
Declared(fs, n) == DOMAIN fs[n].formal

\* C7 as stated: Execute leaves every node's name, help, handler, children,
\* parent, middlewares and set of declared flag names unchanged.
C7_TreeUnchanged ==
    [][ExecuteStep =>
        /\ nodes' = nodes
        /\ \A n \in 1..Len(nodes) : Declared(flagSets', n) = Declared(flagSets, n)
    ]_vars

\* The nodes Execute walked: the path, and the child it was entering when the
\* propagation panicked.
Walked(r) == {r.path[i] : i \in 1..Len(r.path)} \cup ({r.entering} \ {0})

\* C7 amended: Execute leaves every node's name, help, handler, children,
\* parent and middlewares unchanged, allocates no Value and keeps every
\* declared flag as it is; it changes only the values of flags of walked
\* nodes, the remaining arguments of the flag sets of the path, and it adds to
\* the flag set of each walked node other than the root flags of the names
\* its ancestors on the path have.
C7_TreeUnchangedButInheritedFlags ==
    [][ExecuteStep =>
        /\ nodes' = nodes
        /\ Len(flagSets') = Len(flagSets)
        /\ Len(values') = Len(values)
        /\ \A n \in 1..Len(nodes) :
            /\ Declared(flagSets, n) \subseteq Declared(flagSets', n)
            /\ \A name \in Declared(flagSets, n) :
                   flagSets'[n].formal[name] = flagSets[n].formal[name]
            /\ Declared(flagSets', n) # Declared(flagSets, n) =>
                   /\ n # 1
                   /\ n \in Walked(run')
                   /\ Declared(flagSets', n) \ Declared(flagSets, n)
                          \subseteq Declared(flagSets', nodes[n].parent)
            /\ n \notin Walked(run') => flagSets'[n] = flagSets[n]
        /\ \A cell \in 1..Len(values) :
               values'[cell] # values[cell] =>
                   /\ values'[cell].kind = values[cell].kind
                   /\ \E n \in Walked(run') : \E name \in Declared(flagSets, n) :
                          flagSets[n].formal[name].value = cell
    ]_vars

C7_Witness ==
    /\ pc = "returned"
    /\ run.descents >= 1
    /\ Declared(flagSets, 1) # {}
    /\ Declared(flagSets, run.resolved) = Declared(flagSets, 1)
    /\ \E cell \in 1..Len(values) : values[cell].val = "x"

\* C8: the root has no parent, and every node stored in a node's children map
\* under key k has name k and that node as its parent; distinct keys hold
\* distinct nodes.
C8_TreeWellFormed ==
    nodes # <<>> =>
        /\ nodes[1].parent = 0
        /\ \A n \in 1..Len(nodes) :
               LET subs == nodes[n].subCommands IN
               /\ DOMAIN subs \subseteq Names
               /\ \A k \in DOMAIN subs :
                      /\ subs[k] \in 2..Len(nodes)
                      /\ nodes[subs[k]].name = k
                      /\ nodes[subs[k]].parent = n
               /\ \A k1, k2 \in DOMAIN subs : subs[k1] = subs[k2] => k1 = k2

\* SubCommand was called twice with one name on one node: the first child is
\* no longer in its parent's children map.
C8_Witness ==
    /\ pc = "build"
    /\ \E n \in 2..Len(nodes) :
           /\ nodes[n].name \in DOMAIN nodes[nodes[n].parent].subCommands
           /\ nodes[nodes[n].parent].subCommands[nodes[n].name] # n

\* C9: from every tree Execute has an outcome, and in it every descent has
\* consumed a token of its own: the descents and the arguments left never
\* exceed the tokens of os.Args[1:], the path has one node per descent after
\* the root, and the handler is invoked at most once.
C9_DispatchTerminates ==
    /\ pc = "build" => ENABLED Execute
    /\ Executed =>
        /\ pc \in {"returned", "exited", "panicked"}
        /\ Len(run.path) = run.descents + 1
        /\ Len(NameTokens) = run.descents
        /\ run.descents + Len(run.args) <= Len(osArgs)
        /\ Len(HandlerCalls(run.events)) <= 1

C9_Witness ==
    /\ Executed
    /\ run.descents = 2
    /\ Len(osArgs) = 2

\* C10: when Execute looks up a child whose own flag set declares a name the
\* flag set of the node it leaves has (declared or inherited), it panics while
\* entering that child: the child's declarations stay as they were and no
\* middleware and no handler is invoked.
C10_CollisionAborts ==
    [][ExecuteStep =>
        \A c \in Walked(run') \ {1} :
            (Declared(flagSets, c) \cap Declared(flagSets', nodes[c].parent) # {}) =>
                /\ pc' = "panicked"
                /\ run'.entering = c
                /\ run'.resolved = 0
                /\ run'.events = <<>>
                /\ run'.ret = "none"
                /\ \A name \in Declared(flagSets, c) :
                       flagSets'[c].formal[name] = flagSets[c].formal[name]
    ]_vars

C10_Witness ==
    /\ pc = "panicked"
    /\ run.entering # 0
    /\ Declared(flagSets, run.entering) \cap Declared(flagSets, nodes[run.entering].parent) # {}

====
